---- MODULE Spec2Model ----
(***************************************************************************)
(* Timeline model of PIK_maya_anim_sequencer: the process-wide             *)
(* SequencerSequence (scripts/sequence.py), its Shot objects               *)
(* (scripts/shots.py), the host scene they are backed by (time slider      *)
(* bookmarks and cameras) and the Backend slots that drive them            *)
(* (ui/windows.py).                                                        *)
(*                                                                         *)
(* A Shot object caches start/stop of its bookmark node.  The cache and    *)
(* the node are separate state: Shot.move writes the node from the cache   *)
(* and refreshes, Shot.offset_end_frame writes the node only.              *)
(*                                                                         *)
(* A camera's animation is represented by the time of one reference        *)
(* keyframe, taken to be keyed on the shot's first frame;                  *)
(* cmds.keyframe(relative, timeChange=k) shifts it by k.                   *)
(***************************************************************************)
EXTENDS Integers, Sequences, FiniteSets, TLC

\* Bounds of the model.
MaxFrame == 3
MaxLength == 1
MaxOffset == 2

\* The shots a scene can hold, by shot number: SQ0010_SH0010, SQ0010_SH0020
\* and SQ0010_SH0030.
ShotNames == {10, 20, 30}
Frames == 0..MaxFrame
Lengths == 0..MaxLength
Offsets == (0 - MaxOffset)..MaxOffset

\* A name without a bookmark node, without a camera.
NoNode == [exists |-> FALSE, start |-> 0, stop |-> 0]
NoCamera == [exists |-> FALSE, key |-> 0]

VARIABLES shots, bookmarks, cameras, last

\* The host's playhead (cmds.currentTime) and playback window
\* (cmds.playbackOptions minTime/maxTime), and what the last slot call came
\* to: the slots of the window and of the playhead are explored apart from
\* the slots of the timeline (SpecFocus below), where these are state.
VARIABLES playhead, window, result

\* The Sequence's name and the names of its shots, in the Sequence's order
\* (SpecNames below).  On the timeline a shot is identified by its shot
\* number alone.
VARIABLES naming

\* The process: the scene that is open, the class attribute
\* SequencerSequence.instance and the Sequence objects made so far, the
\* module's callbacks list and the callbacks the host holds (SpecMain below).
VARIABLES session

vars == <<shots, bookmarks, cameras, last, playhead, window, result, naming,
          session>>

\* What the slots of the timeline leave alone.
host == <<playhead, window, result, naming, session>>

\* SequencerSequence.__init__(name="SQ0010")
DefaultName == <<"S", "Q", "0", "0", "1", "0">>

\* The outcomes of a call that returns no name: None, and the exceptions.
None == <<"None">>
ValueError == <<"ValueError">>
IndexError == <<"IndexError">>
RuntimeError == <<"RuntimeError">>

\* The scene and the Sequence as one value: what the operations transform.
World == [shots |-> shots, bookmarks |-> bookmarks, cameras |-> cameras]

----------------------------------------------------------------------------
\* Shot (scripts/shots.py)

\* Shot.__init__ / Shot.refresh: read start and stop back from the node.
Refresh(sh, bm) ==
    [sh EXCEPT !.start = bm[sh.name].start, !.stop = bm[sh.name].stop]

\* A move that forgets the stop attribute.
ShotMoveStartOnly(w, i, offset) ==
    LET sh == w.shots[i]
        bm == [w.bookmarks EXCEPT ![sh.name] =
                  [exists |-> TRUE, start |-> sh.start + offset, stop |-> sh.stop]]
    IN  [shots     |-> [w.shots EXCEPT ![i] = Refresh(sh, bm)],
         bookmarks |-> bm,
         cameras   |-> [w.cameras EXCEPT ![sh.name].key = @ + offset]]

\* A move that does not go before frame 0.
ShotMoveClamped(w, i, offset) ==
    LET sh == w.shots[i]
        by == IF sh.start + offset < 0 THEN 0 - sh.start ELSE offset
        bm == [w.bookmarks EXCEPT ![sh.name] =
                  [exists |-> TRUE, start |-> sh.start + by, stop |-> sh.stop + by]]
    IN  [shots     |-> [w.shots EXCEPT ![i] = Refresh(sh, bm)],
         bookmarks |-> bm,
         cameras   |-> [w.cameras EXCEPT ![sh.name].key = @ + by]]

\* Shot.move(offset): set the node's range from the cached range plus offset,
\* refresh the cache from the node, shift the camera's keyframes.
ShotMove(w, i, offset) ==
    LET sh == w.shots[i]
        bm == [w.bookmarks EXCEPT ![sh.name] =
                  [exists |-> TRUE, start |-> sh.start + offset, stop |-> sh.stop + offset]]
    IN  [shots     |-> [w.shots EXCEPT ![i] = Refresh(sh, bm)],
         bookmarks |-> bm,
         cameras   |-> [w.cameras EXCEPT ![sh.name].key = @ + offset]]

\* Shot.offset_end_frame(offset): set the node's stop from the cached stop;
\* the cache is not refreshed.
OffsetEndFrame(w, i, offset) ==
    LET sh == w.shots[i]
    IN  [w EXCEPT !.bookmarks[sh.name].stop = sh.stop + offset]

----------------------------------------------------------------------------
\* SequencerSequence (scripts/sequence.py)

\* sorted(..., key=start) is stable: x goes after every element whose start
\* is not greater.
InsertByStart(sorted, x) ==
    LET k == Cardinality({j \in 1..Len(sorted) : sorted[j].start <= x.start})
    IN  SubSeq(sorted, 1, k) \o <<x>> \o SubSeq(sorted, k + 1, Len(sorted))

RECURSIVE SortedByStart(_)
SortedByStart(s) ==
    IF s = <<>> THEN <<>>
    ELSE InsertByStart(SortedByStart(SubSeq(s, 1, Len(s) - 1)), s[Len(s)])

\* sort_shots
SortShots(s) == SortedByStart(s)

RECURSIVE ShotsAtTimeFrom(_, _, _)
ShotsAtTimeFrom(s, time, i) ==
    IF i > Len(s) THEN <<>>
    ELSE (IF s[i].start <= time /\ time <= s[i].stop THEN <<s[i]>> ELSE <<>>)
         \o ShotsAtTimeFrom(s, time, i + 1)

RECURSIVE ShotsAtTimeExclusiveFrom(_, _, _)
ShotsAtTimeExclusiveFrom(s, time, i) ==
    IF i > Len(s) THEN <<>>
    ELSE (IF s[i].start <= time /\ time < s[i].stop THEN <<s[i]>> ELSE <<>>)
         \o ShotsAtTimeExclusiveFrom(s, time, i + 1)

\* A query that excludes the stop frame.
GetShotsAtTimeExclusive(s, time) == ShotsAtTimeExclusiveFrom(s, time, 1)

\* get_shots_at_time
GetShotsAtTime(s, time) == ShotsAtTimeFrom(s, time, 1)

\* Index in s of the first shot at the given time (0 when there is none):
\* get_shots_at_time(time)[0].
ActiveIndex(s, time) ==
    LET hit == {i \in 1..Len(s) : s[i].start <= time /\ time <= s[i].stop}
    IN  IF hit = {} THEN 0 ELSE CHOOSE i \in hit : \A j \in hit : i <= j

\* Indices of get_next_shots_at_time(time).
NextIndices(s, time) == {i \in 1..Len(s) : s[i].start > time}

\* for shot in next_shots: shot.move(total), over the indices from i on.
RECURSIVE MoveEach(_, _, _, _)
MoveEach(w, idx, total, i) ==
    IF i > Len(w.shots) THEN w
    ELSE MoveEach(IF i \in idx THEN ShotMove(w, i, total) ELSE w, idx, total, i + 1)

\* offset_frame_of_shot_at_time(time, total), when a shot is at the time.
OffsetFrameOfShotAtTime(w, time, total) ==
    LET active == ActiveIndex(w.shots, time)
        next   == NextIndices(w.shots, time)
    IN  MoveEach(OffsetEndFrame(w, active, total), next, total, 1)

\* The loop of resolve_overlapping_shots, from list index i on (1-based).
RECURSIVE OverlapLoop(_, _)
OverlapLoop(w, i) ==
    IF i > Len(w.shots) THEN w
    ELSE LET prev == w.shots[i - 1]
             curr == w.shots[i]
         IN  OverlapLoop(IF curr.start < prev.stop
                         THEN ShotMove(w, i, (prev.stop - curr.start) + 1)
                         ELSE w,
                         i + 1)

\* resolve_overlapping_shots
ResolveOverlappingShots(w) ==
    LET r == OverlapLoop(w, 2)
    IN  [r EXCEPT !.shots = SortShots(r.shots)]

\* A loop that closes a gap by one frame only.
RECURSIVE GapLoopOneFrame(_, _)
GapLoopOneFrame(w, i) ==
    IF i >= Len(w.shots) THEN w
    ELSE LET curr == w.shots[i]
             next == w.shots[i + 1]
         IN  GapLoopOneFrame(IF curr.stop < next.start - 1
                             THEN ShotMove(w, i + 1, 0 - 1)
                             ELSE w,
                             i + 1)

\* A loop that leaves one empty frame between the shots it closes up.
RECURSIVE GapLoopLeavesFrame(_, _)
GapLoopLeavesFrame(w, i) ==
    IF i >= Len(w.shots) THEN w
    ELSE LET curr == w.shots[i]
             next == w.shots[i + 1]
         IN  GapLoopLeavesFrame(IF curr.stop < next.start - 2
                                THEN ShotMove(w, i + 1, (0 - (next.start - curr.stop)) + 2)
                                ELSE w,
                                i + 1)

\* The loop of resolve_gaps_between_shots, from list index i on (1-based).
RECURSIVE GapLoop(_, _)
GapLoop(w, i) ==
    IF i >= Len(w.shots) THEN w
    ELSE LET curr == w.shots[i]
             next == w.shots[i + 1]
         IN  GapLoop(IF curr.stop < next.start - 1
                     THEN ShotMove(w, i + 1, (0 - (next.start - curr.stop)) + 1)
                     ELSE w,
                     i + 1)

\* resolve_gaps_between_shots
ResolveGapsBetweenShots(w) ==
    LET r == GapLoop(w, 1)
    IN  [r EXCEPT !.shots = SortShots(r.shots)]

\* delete_shot_at_time(time), when a shot is at the time: the first shot at
\* the time leaves the list, its bookmark and its camera leave the scene.
DeleteShotAtTime(w, time) ==
    LET i  == ActiveIndex(w.shots, time)
        sh == w.shots[i]
    IN  [shots     |-> SubSeq(w.shots, 1, i - 1) \o SubSeq(w.shots, i + 1, Len(w.shots)),
         bookmarks |-> [w.bookmarks EXCEPT ![sh.name] = NoNode],
         cameras   |-> [w.cameras EXCEPT ![sh.name] = NoCamera]]

\* The bookmark nodes of the scene as Shot objects, in node order.
RECURSIVE ShotsOfScene(_, _)
ShotsOfScene(bm, names) ==
    IF names = {} THEN <<>>
    ELSE LET n == CHOOSE m \in names : \A k \in names : m <= k
         IN  (IF bm[n].exists
              THEN <<[name |-> n, start |-> bm[n].start, stop |-> bm[n].stop]>>
              ELSE <<>>)
             \o ShotsOfScene(bm, names \ {n})

\* SequencerSequence.load: every shot of the scene, sorted by start.
Load(bm) == SortedByStart(ShotsOfScene(bm, ShotNames))

\* update_range_of_shots: every cached range is read back, then sort_shots.
UpdateRangeOfShots(s, bm) ==
    SortShots([i \in 1..Len(s) |-> Refresh(s[i], bm)])

----------------------------------------------------------------------------
\* State

\* Every frame number of the world stays within the bounds of the model.
InBounds(w) ==
    /\ \A i \in 1..Len(w.shots) :
          w.shots[i].start \in Frames /\ w.shots[i].stop \in (0 - 1)..MaxFrame
    /\ \A n \in ShotNames :
          w.bookmarks[n].start \in Frames /\ w.bookmarks[n].stop \in (0 - 1)..MaxFrame

\* The names of the shots of s whose start differs in w.
MovedNames(s, w) ==
    {s[i].name : i \in {j \in 1..Len(s) :
        \E k \in 1..Len(w.shots) :
            w.shots[k].name = s[j].name /\ w.shots[k].start # s[j].start}}

\* The call that produced the state, for the calls that lay the timeline out
\* (unstack, link, move, offset), with the number of shots it moved; any
\* other call reads "-" and 0.
Call(name, w) ==
    [name  |-> name,
     moved |-> IF name = "-" THEN 0 ELSE Cardinality(MovedNames(shots, w))]

\* The successor state: the world w, reached by the call `name`.
Becomes(w, name) ==
    /\ InBounds(w)
    /\ shots' = w.shots
    /\ bookmarks' = w.bookmarks
    /\ cameras' = w.cameras
    /\ last' = Call(name, w)
    /\ UNCHANGED host

\* A call that raised before it changed anything.
Raised ==
    /\ last' = Call("-", World)
    /\ UNCHANGED <<shots, bookmarks, cameras>>
    /\ UNCHANGED host

\* An empty scene, loaded: get_sequencer_sequence(reset=True) in run().
Init ==
    /\ bookmarks = [n \in ShotNames |-> NoNode]
    /\ cameras = [n \in ShotNames |-> NoCamera]
    /\ shots = Load(bookmarks)
    /\ last = Call("-", World)
    /\ playhead = 0
    /\ window = [min |-> 0, max |-> MaxFrame]
    /\ result = [call |-> "-"]
    /\ naming = [name |-> DefaultName, shots |-> <<>>]
    /\ session = [scene |-> <<>>, instance |-> 0, objects |-> <<>>,
                  callbacks |-> <<>>, registered |-> {}, issued |-> 0,
                  open |-> FALSE]

----------------------------------------------------------------------------
\* Backend slots (ui/windows.py) and host callbacks (scripts/main.py)
\*
\* A slot reads the playhead with cmds.currentTime(query=True).  The user
\* can scrub the playhead to any frame without any effect on the shots
\* (the time-change callback returns at once while the host is scrubbing),
\* so the playhead a slot reads is an input t of the slot.

\* The playhead moves other than by scrubbing; the host fires the
\* time-change callback update_shots_start_and_stop_datas.
TimeChange ==
    Becomes([World EXCEPT !.shots = UpdateRangeOfShots(shots, bookmarks)],
            "-")

\* run(): the Sequence is loaded again from the scene.
Run ==
    Becomes([World EXCEPT !.shots = Load(bookmarks)], "-")

\* The names a new shot is given: a name that is taken, or the first free
\* one (the free names are interchangeable).
NamesToCreate ==
    {n \in ShotNames :
        bookmarks[n].exists \/ \A m \in ShotNames : m < n => bookmarks[m].exists}

\* do_create_shot(name, _, length, name) at playhead t, on the world w: the
\* world after the slot and what the slot returned or raised.  A bookmark
\* [t, t + length] and a camera of the same name are created, the Shot is
\* appended and the list sorted.  A name that is taken yields no Shot
\* object, and the slot raises on it.  When the name is free and a camera of
\* the name is in the scene, the bookmark is created and
\* SequencerCamera.create raises: the Shot is not appended.
CreateShotAtTime(w, name, length, t) ==
    LET node == [exists |-> TRUE, start |-> t, stop |-> t + length]
        shot == [name |-> name, start |-> node.start, stop |-> node.stop]
    IN  IF w.bookmarks[name].exists
        THEN [world |-> w, value |-> RuntimeError]
        ELSE IF w.cameras[name].exists
             THEN [world |-> [w EXCEPT !.bookmarks[name] = node],
                   value |-> RuntimeError]
             ELSE [world |-> [shots     |-> SortedByStart(Append(w.shots, shot)),
                              bookmarks |-> [w.bookmarks EXCEPT ![name] = node],
                              cameras   |-> [w.cameras EXCEPT ![name] =
                                                [exists |-> TRUE, key |-> node.start]]],
                   value |-> None]

DoCreateShot(name, length, t) ==
    Becomes(CreateShotAtTime(World, name, length, t).world, "-")

\* delete_shot at playhead t: the first shot at t, after the user confirmed.
DeleteShot(t, confirmed) ==
    IF ActiveIndex(shots, t) = 0
    THEN Raised
    ELSE Becomes(IF confirmed THEN DeleteShotAtTime(World, t) ELSE World, "-")

\* offset_frame_of_shot_at_time(t, total)
OffsetFrame(t, total) ==
    IF ActiveIndex(shots, t) = 0
    THEN Raised
    ELSE Becomes(OffsetFrameOfShotAtTime(World, t, total), "offset")

\* reduce_active_shot_length at playhead t
ReduceActiveShotLength(t) == OffsetFrame(t, 0 - 1)

\* increase_active_shot_length at playhead t
IncreaseActiveShotLength(t) == OffsetFrame(t, 1)

\* link_shots
LinkShots == Becomes(ResolveGapsBetweenShots(World), "link")

\* unstack_shots
UnstackShots == Becomes(ResolveOverlappingShots(World), "unstack")

\* A taken name fails whatever the length and the playhead are: one of each
\* is drawn for it.
CreateShot ==
    \E name \in NamesToCreate :
        \E length \in (IF bookmarks[name].exists THEN {0} ELSE Lengths),
           t \in (IF bookmarks[name].exists THEN {0} ELSE Frames) :
            DoCreateShot(name, length, t)

EditShots ==
    \/ TimeChange
    \/ Run
    \/ \E t \in Frames, confirmed \in BOOLEAN : DeleteShot(t, confirmed)
    \/ \E t \in Frames : ReduceActiveShotLength(t)
    \/ \E t \in Frames : IncreaseActiveShotLength(t)
    \/ LinkShots
    \/ UnstackShots

Next == CreateShot \/ EditShots

Spec == Init /\ [][Next]_vars

----------------------------------------------------------------------------
\* The methods of the Sequence and of its Shots, called directly

\* shots[i].move(offset)
MoveCall(i, offset) == Becomes(ShotMove(World, i, offset), "move")

\* offset_frame_of_shot_at_time(t, total), total any signed integer
OffsetFrameCall(t, total) == OffsetFrame(t, total)

\* The direct calls are explored on scenes that leave one name free.
MaxApiShots == Cardinality(ShotNames) - 1

NextApi ==
    \/ Cardinality({n \in ShotNames : bookmarks[n].exists}) < MaxApiShots /\ CreateShot
    \/ EditShots
    \/ \E i \in 1..Len(shots), offset \in Offsets : MoveCall(i, offset)
    \/ \E t \in Frames, total \in Offsets : OffsetFrameCall(t, total)

SpecApi == Init /\ [][NextApi]_vars

----------------------------------------------------------------------------
\* Names (scripts/sequence.py generate_shot_name, scripts/dependencies.py)
\*
\* A name is the tuple of its characters, so that split, slicing, int() and
\* the format specification act on it as they act on a Python str.

Digit == <<"0", "1", "2", "3", "4", "5", "6", "7", "8", "9">>

IsDigit(c) == \E d \in 1..10 : Digit[d] = c

DigitValue(c) == (CHOOSE d \in 1..10 : Digit[d] = c) - 1

\* str.isdigit(): at least one character, every character a digit.
IsDigitStr(str) == str # <<>> /\ \A i \in 1..Len(str) : IsDigit(str[i])

\* int(str), for a str of digits.
RECURSIVE ToInt(_)
ToInt(str) ==
    IF str = <<>> THEN 0
    ELSE ToInt(SubSeq(str, 1, Len(str) - 1)) * 10 + DigitValue(str[Len(str)])

\* str(n), for n >= 0.
RECURSIVE ToStr(_)
ToStr(n) ==
    IF n < 10 THEN <<Digit[n + 1]>>
    ELSE ToStr(n \div 10) \o <<Digit[(n % 10) + 1]>>

RECURSIVE ZeroPad(_, _)
ZeroPad(str, width) ==
    IF Len(str) >= width THEN str ELSE ZeroPad(<<"0">> \o str, width)

\* A format without the zero padding.
FormatUnpadded(n) == ToStr(n)

\* f"{n:03}": the decimal digits of n, zero-padded to three at least.
Format03(n) == ZeroPad(ToStr(n), 3)

\* str.split(sep): the parts between the separators, from position i on, the
\* part being read in `part`.
RECURSIVE SplitFrom(_, _, _, _)
SplitFrom(str, sep, i, part) ==
    IF i > Len(str) THEN <<part>>
    ELSE IF str[i] = sep
         THEN <<part>> \o SplitFrom(str, sep, i + 1, <<>>)
         ELSE SplitFrom(str, sep, i + 1, Append(part, str[i]))

Split(str, sep) == SplitFrom(str, sep, 1, <<>>)

\* str.startswith(prefix)
StartsWith(str, prefix) ==
    Len(str) >= Len(prefix) /\ SubSeq(str, 1, Len(prefix)) = prefix

\* str[2:]
From2(str) == SubSeq(str, 3, Len(str))

\* str[2:-1]
From2ButLast(str) == SubSeq(str, 3, Len(str) - 1)

Last(seq) == seq[Len(seq)]

Maximum(set) == CHOOSE m \in set : \A n \in set : n <= m

\* generate_shot_name on a Sequence seq = [name, shots], shots the names of
\* its shots in the Sequence's order: the name it returns.
GenerateShotName(seq) ==
    IF seq.shots # <<>>
    THEN LET sequence == Split(seq.shots[1], "_")[1]
             all_shots_number ==
                 {ToInt(From2ButLast(Last(Split(seq.shots[i], "_")))) :
                     i \in 1..Len(seq.shots)}
         IN  sequence \o <<"_", "S", "H">>
                 \o Format03(Maximum(all_shots_number) + 1) \o <<"0">>
    ELSE seq.name \o <<"_", "S", "H", "0", "0", "1", "0">>

\* generate_shot_name: the name the Sequence has after the call.
NameAfterGenerate(seq) ==
    IF seq.shots # <<>> THEN Split(seq.shots[1], "_")[1] ELSE seq.name

\* valid_shot_name(name): the name, or ValueError (from the unpacking of a
\* split that has not two parts, or raised by one of the two tests).
ValidShotName(name) ==
    LET parts == Split(name, "_")
    IN  IF Len(parts) # 2 THEN ValueError
        ELSE LET seq  == parts[1]
                 shot == parts[2]
             IN  IF ~StartsWith(seq, <<"S", "Q">>) \/ ~StartsWith(shot, <<"S", "H">>)
                 THEN ValueError
                 ELSE IF ~IsDigitStr(From2(seq)) \/ ~IsDigitStr(From2(shot))
                      THEN ValueError
                      ELSE name

\* valid_sequence_name(name): the name, or ValueError.
ValidSequenceName(name) ==
    IF ~StartsWith(name, <<"S", "Q">>) THEN ValueError
    ELSE IF ~IsDigitStr(From2(name)) THEN ValueError
         ELSE name

\* SequencerSequence.rename(name) on seq = [name, shots]: the Sequence after
\* the call (unchanged when the name is refused or is the Sequence's own).
Rename(seq, name) ==
    IF ValidSequenceName(name) = ValueError \/ name = seq.name THEN seq
    ELSE [name  |-> name,
          shots |-> [i \in 1..Len(seq.shots) |->
                        name \o <<"_">> \o Split(seq.shots[i], "_")[2]]]

----------------------------------------------------------------------------
\* The names of a Sequence: creation and deletion of named shots, rename,
\* generate_shot_name

MaxNames == 2

\* The four digits of the sequences and of the shots that are named.
SequenceNumbers == {<<"0", "0", "1", "0">>, <<"0", "0", "2", "0">>}
ShotNumbers ==
    {<<"0", "0", "1", "0">>, <<"0", "0", "1", "5">>, <<"0", "0", "2", "0">>,
     <<"0", "9", "9", "0">>, <<"9", "9", "9", "0">>}

SequenceName(sq) == <<"S", "Q">> \o sq
ShotName(sq, sh) == SequenceName(sq) \o <<"_", "S", "H">> \o sh

\* The well-formed shot names: SQ#### _ SH####.
WellFormedNames == {ShotName(sq, sh) : sq \in SequenceNumbers, sh \in ShotNumbers}

\* The names rename is called with.
RenameArguments ==
    {SequenceName(sq) : sq \in SequenceNumbers} \cup {<<"B", "A", "D">>}

\* The slots of the timeline and of the window: all but the names and the result.
scene == <<shots, bookmarks, cameras, last, playhead, window>>

\* A shot of the given name is created (do_create_shot) and takes the place
\* k of the Sequence its start gives it; a name that is taken is refused.
CreateNamed(name, k) ==
    /\ Len(naming.shots) < MaxNames
    /\ \A i \in 1..Len(naming.shots) : naming.shots[i] # name
    /\ naming' = [naming EXCEPT !.shots =
                    SubSeq(@, 1, k - 1) \o <<name>> \o SubSeq(@, k, Len(@))]
    /\ result' = [call |-> "do_create_shot", arg |-> name, value |-> None]
    /\ UNCHANGED <<scene, session>>

\* The shot at place i is deleted.
DeleteNamed(i) ==
    /\ naming' = [naming EXCEPT !.shots =
                    SubSeq(@, 1, i - 1) \o SubSeq(@, i + 1, Len(@))]
    /\ result' = [call |-> "delete_shot", arg |-> naming.shots[i], value |-> None]
    /\ UNCHANGED <<scene, session>>

\* get_shot_name: generate_shot_name on the Sequence.
GetShotName ==
    /\ naming' = [naming EXCEPT !.name = NameAfterGenerate(naming)]
    /\ result' = [call |-> "generate_shot_name", arg |-> naming,
                  value |-> GenerateShotName(naming)]
    /\ UNCHANGED <<scene, session>>

\* rename(name)
RenameSequence(name) ==
    /\ naming' = Rename(naming, name)
    /\ result' = [call |-> "rename", arg |-> name,
                  value |-> IF ValidSequenceName(name) = ValueError
                            THEN ValueError ELSE None]
    /\ UNCHANGED <<scene, session>>

NextNames ==
    \/ \E name \in WellFormedNames, k \in 1..(Len(naming.shots) + 1) :
          CreateNamed(name, k)
    \/ \E i \in 1..Len(naming.shots) : DeleteNamed(i)
    \/ GetShotName
    \/ \E name \in RenameArguments : RenameSequence(name)

SpecNames == Init /\ [][NextNames]_vars

----------------------------------------------------------------------------
\* The validators of scripts/dependencies.py, applied to candidate names

MaxDigits == 4

\* Runs of one character, up to MaxDigits + 1 long, and one with a letter.
RECURSIVE Repeat(_, _)
Repeat(c, n) == IF n = 0 THEN <<>> ELSE <<c>> \o Repeat(c, n - 1)

Numbers ==
    {Repeat("0", n) : n \in 0..(MaxDigits + 1)}
        \cup {Repeat("7", n) : n \in 1..MaxDigits}
        \cup {<<"0", "A", "1", "0">>}

Prefixes == {<<>>, <<"S", "Q">>, <<"S", "H">>, <<"s", "q">>}

Separators == {<<>>, <<"_">>, <<"_", "_">>}

\* The names the validators are called with: prefix, number, separator,
\* prefix, number, and BADNAME.
Candidates ==
    {p1 \o n1 \o sep \o p2 \o n2 :
        p1 \in Prefixes, n1 \in Numbers, sep \in Separators,
        p2 \in Prefixes, n2 \in Numbers}
    \cup {<<"B", "A", "D", "N", "A", "M", "E">>}

\* One call of a validator on a candidate.
CallValidShotName(name) ==
    /\ result.call = "-"
    /\ result' = [call |-> "valid_shot_name", arg |-> name,
                  value |-> ValidShotName(name)]
    /\ UNCHANGED <<scene, naming, session>>

CallValidSequenceName(name) ==
    /\ result.call = "-"
    /\ result' = [call |-> "valid_sequence_name", arg |-> name,
                  value |-> ValidSequenceName(name)]
    /\ UNCHANGED <<scene, naming, session>>

NextValidators ==
    \/ \E name \in Candidates : CallValidShotName(name)
    \/ \E name \in Candidates : CallValidSequenceName(name)

SpecValidators == Init /\ [][NextValidators]_vars

----------------------------------------------------------------------------
\* The playback window and the playhead: the focus slots of the Backend
\* (ui/windows.py) and the focus methods of the Sequence

\* extra_defocus(defocus_amount = 24)
DefocusAmount == 24

\* How many times the window is widened.
MaxWiden == 1

\* The slots are explored on scenes that leave one name free.
MaxFocusShots == Cardinality(ShotNames) - 1

\* The host and the Sequence as one value, with what the slot returned or
\* raised.
Scene == [world |-> World, playhead |-> playhead, window |-> window, value |-> None]

\* Shot.focus: the playback range frames the shot.
ShotFocus(sh) == [min |-> sh.start, max |-> sh.stop]

\* extra_defocus
ExtraDefocus(win) == [min |-> win.min - DefocusAmount, max |-> win.max + DefocusAmount]

\* defocus: timeSliderBookmark.frameAllBookmark(), the playback range from
\* the first start to the last stop of the bookmarks of the scene.
FrameAllBookmark(bm, win) ==
    LET nodes == {n \in ShotNames : bm[n].exists}
    IN  IF nodes = {} THEN win
        ELSE [min |-> CHOOSE a \in {bm[n].start : n \in nodes} :
                          \A n \in nodes : a <= bm[n].start,
              max |-> CHOOSE b \in {bm[n].stop : n \in nodes} :
                          \A n \in nodes : bm[n].stop <= b]

\* is_sequence_focus, on a Sequence that has a shot.
IsSequenceFocus(s, win) ==
    <<s[1].start, s[Len(s)].stop>> = <<win.min, win.max>>

\* is_shot_focus_at_time(time)
IsShotFocusAtTime(s, win, time) ==
    LET active_shots == GetShotsAtTime(s, time)
    IN  \E i \in 1..Len(active_shots) :
            <<active_shots[i].start, active_shots[i].stop>> = <<win.min, win.max>>

\* is_sequence_fully_defocus, with a test that admits the bounds themselves.
IsSequenceFullyDefocusOrEqual(s, win) ==
    s[1].start >= win.min /\ s[Len(s)].stop <= win.max

\* is_sequence_fully_defocus, on a Sequence that has a shot.
IsSequenceFullyDefocus(s, win) ==
    s[1].start > win.min /\ s[Len(s)].stop < win.max

\* get_previous_shots_at_time(time): the loop over self.shots from place i.
RECURSIVE PreviousShotsFrom(_, _, _)
PreviousShotsFrom(s, time, i) ==
    IF i > Len(s) THEN <<>>
    ELSE (IF s[i].stop < time THEN <<s[i]>> ELSE <<>>)
             \o PreviousShotsFrom(s, time, i + 1)

GetPreviousShotsAtTime(s, time) == PreviousShotsFrom(s, time, 1)

\* get_next_shots_at_time(time): the loop over self.shots from place i.
RECURSIVE NextShotsFrom(_, _, _)
NextShotsFrom(s, time, i) ==
    IF i > Len(s) THEN <<>>
    ELSE (IF s[i].start > time THEN <<s[i]>> ELSE <<>>)
             \o NextShotsFrom(s, time, i + 1)

GetNextShotsAtTime(s, time) == NextShotsFrom(s, time, 1)

\* get_previous_shots_at_time(time), as places of the list.
PreviousIndices(s, time) == {i \in 1..Len(s) : s[i].stop < time}

\* The last place of a set of places: shot_list[-1].
LastIndex(idx) == CHOOSE i \in idx : \A j \in idx : j <= i

\* The first place of a set of places.
FirstIndex(idx) == CHOOSE i \in idx : \A j \in idx : i <= j

\* cmds.currentTime(time): the playhead moves and, when the time changes,
\* the host fires update_shots_start_and_stop_datas.
CurrentTime(sc, time) ==
    [sc EXCEPT !.playhead = time,
               !.world.shots = IF time = sc.playhead THEN @
                               ELSE UpdateRangeOfShots(@, sc.world.bookmarks)]

\* The shot of the places idx that focus_previous_at_time and
\* focus_next_at_time frame: window, then playhead.
FocusOn(sc, idx) ==
    IF idx = {} THEN sc
    ELSE LET sh == sc.world.shots[LastIndex(idx)]
         IN  CurrentTime([sc EXCEPT !.window = ShotFocus(sh)], sh.start)

\* The same with the nearest shot, the first place, for the next shots.
FocusOnFirst(sc, idx) ==
    IF idx = {} THEN sc
    ELSE LET sh == sc.world.shots[FirstIndex(idx)]
         IN  CurrentTime([sc EXCEPT !.window = ShotFocus(sh)], sh.start)

\* focus_previous_at_time(current time)
FocusPreviousAtTime(sc) == FocusOn(sc, PreviousIndices(sc.world.shots, sc.playhead))

\* focus_next_at_time(current time)
FocusNextAtTime(sc) == FocusOn(sc, NextIndices(sc.world.shots, sc.playhead))

\* Backend.focus_active_shot
FocusActiveShot(sc) ==
    LET i == ActiveIndex(sc.world.shots, sc.playhead)
    IN  IF i = 0 THEN [sc EXCEPT !.value = IndexError]
        ELSE [sc EXCEPT !.window = ShotFocus(sc.world.shots[i])]

\* Backend.defocus_active_shot: is_sequence_focus reads shots[0] first.
DefocusActiveShot(sc) ==
    LET s == sc.world.shots
    IN  IF s = <<>> THEN [sc EXCEPT !.value = IndexError]
        ELSE IF \/ IsSequenceFocus(s, sc.window)
                \/ IsShotFocusAtTime(s, sc.window, sc.playhead)
                \/ IsSequenceFullyDefocus(s, sc.window)
             THEN [sc EXCEPT !.window = ExtraDefocus(@)]
             ELSE [sc EXCEPT !.window = FrameAllBookmark(sc.world.bookmarks, @)]

\* Backend.delete_shot: get_shots_at_time(current_time)[0] comes before the
\* test of the shot and before the confirmation dialog.
DeleteShotSlot(sc, confirmed) ==
    IF ActiveIndex(sc.world.shots, sc.playhead) = 0
    THEN [sc EXCEPT !.value = IndexError]
    ELSE IF confirmed
         THEN [sc EXCEPT !.world = DeleteShotAtTime(@, sc.playhead)]
         ELSE sc

\* Backend.do_create_shot at the playhead.
DoCreateShotSlot(sc, name, length) ==
    LET out == CreateShotAtTime(sc.world, name, length, sc.playhead)
    IN  [sc EXCEPT !.world = out.world, !.value = out.value]

\* Backend.reduce_active_shot_length / increase_active_shot_length at the
\* playhead.
OffsetFrameSlot(sc, total) ==
    IF ActiveIndex(sc.world.shots, sc.playhead) = 0
    THEN [sc EXCEPT !.value = IndexError]
    ELSE [sc EXCEPT !.world = OffsetFrameOfShotAtTime(@, sc.playhead, total)]

\* The state after a slot that ended as out.
Ends(call, out) ==
    /\ InBounds(out.world)
    /\ out.window.min >= 0 - MaxWiden * DefocusAmount
    /\ shots' = out.world.shots
    /\ bookmarks' = out.world.bookmarks
    /\ cameras' = out.world.cameras
    /\ last' = Call("-", out.world)
    /\ playhead' = out.playhead
    /\ window' = out.window
    /\ result' = [call |-> call, value |-> out.value]
    /\ UNCHANGED <<naming, session>>

\* The user sets the current time, scrubbing or not.
SetCurrentTime(time, scrubbing) ==
    Ends("currentTime",
         IF scrubbing THEN [Scene EXCEPT !.playhead = time]
         ELSE CurrentTime(Scene, time))

\* A camera of the name of a shot comes into the scene other than by
\* do_create_shot (the user creates or imports it).
CameraAppears(name) ==
    /\ ~cameras[name].exists
    /\ Ends("camera", [Scene EXCEPT !.world.cameras[name] = [exists |-> TRUE, key |-> 0]])

FocusCreate ==
    \E name \in NamesToCreate, length \in Lengths :
        /\ bookmarks[name].exists
              \/ Cardinality({n \in ShotNames : bookmarks[n].exists}) < MaxFocusShots
        /\ Ends("do_create_shot", DoCreateShotSlot(Scene, name, length))

NextFocus ==
    \/ FocusCreate
    \/ \E confirmed \in BOOLEAN : Ends("delete_shot", DeleteShotSlot(Scene, confirmed))
    \/ Ends("focus_active_shot", FocusActiveShot(Scene))
    \/ Ends("defocus_active_shot", DefocusActiveShot(Scene))
    \/ Ends("focus_previous_shot", FocusPreviousAtTime(Scene))
    \/ Ends("focus_next_shot", FocusNextAtTime(Scene))
    \/ \E time \in Frames, scrubbing \in BOOLEAN : SetCurrentTime(time, scrubbing)

SpecFocus == Init /\ [][NextFocus]_vars

\* The slots that edit the shots at the playhead, with what they return or
\* raise, in a scene where cameras come in from outside; the playback window
\* is left as it is.
NextSlots ==
    \/ FocusCreate
    \/ \E confirmed \in BOOLEAN : Ends("delete_shot", DeleteShotSlot(Scene, confirmed))
    \/ Ends("reduce_active_shot_length", OffsetFrameSlot(Scene, 0 - 1))
    \/ Ends("increase_active_shot_length", OffsetFrameSlot(Scene, 1))
    \/ \E time \in Frames, scrubbing \in BOOLEAN : SetCurrentTime(time, scrubbing)
    \/ \E name \in NamesToCreate : CameraAppears(name)

SpecSlots == Init /\ [][NextSlots]_vars

----------------------------------------------------------------------------
\* Loading the Sequence from the bookmarks of a scene, with their names
\* (SequencerSequence.load)

MaxNodes == 3

\* The shot attribute of the bookmarks of the scene: names of the pattern,
\* of two sequences, a name without an underscore and one with two.
StoreNames ==
    {ShotName(<<"0", "0", "1", "0">>, <<"0", "0", "1", "0">>),
     ShotName(<<"0", "0", "2", "0">>, <<"0", "0", "1", "0">>),
     <<"S", "H", "O", "T">>,
     <<"S", "Q", "1", "_", "S", "H", "1", "_", "B">>}

\* A bookmark of the scene: one of the host, without the attributes of a
\* shot, or one with them.
StoreNodes ==
    {[fields |-> FALSE, name |-> <<>>, start |-> 0, stop |-> 0]}
        \cup {[fields |-> TRUE, name |-> n, start |-> a, stop |-> a] :
                n \in StoreNames, a \in 0..1}

\* The scenes: cmds.ls(exactType="timeSliderBookmark"), in node order.
Stores == UNION {[1..k -> StoreNodes] : k \in 0..MaxNodes}

\* SequencerShot.get(node): no Shot for a bookmark that lacks the attributes.
RECURSIVE ShotsOfStore(_, _)
ShotsOfStore(store, i) ==
    IF i > Len(store) THEN <<>>
    ELSE (IF store[i].fields THEN <<store[i]>> ELSE <<>>) \o ShotsOfStore(store, i + 1)

\* SequencerSequence.load on the scene: the Sequence [name, shots] it
\* returns, or the ValueError of the unpacking of
\* seq.shots[0].name.split("_"), which returns no Sequence.
LoadStore(store) ==
    LET sorted == SortedByStart(ShotsOfStore(store, 1))
    IN  IF sorted = <<>>
        THEN [error |-> None, name |-> DefaultName, shots |-> sorted]
        ELSE LET parts == Split(sorted[1].name, "_")
             IN  IF Len(parts) # 2
                 THEN [error |-> ValueError, name |-> <<>>, shots |-> <<>>]
                 ELSE [error |-> None, name |-> parts[1], shots |-> sorted]

\* One load of a scene.
CallLoad(store) ==
    /\ result.call = "-"
    /\ result' = [call |-> "load", arg |-> store, value |-> LoadStore(store)]
    /\ UNCHANGED <<scene, naming, session>>

NextLoad == \E store \in Stores : CallLoad(store)

SpecLoad == Init /\ [][NextLoad]_vars

----------------------------------------------------------------------------
\* The process-wide Sequence (get_sequencer_sequence) and the host callbacks
\* (scripts/main.py)
\*
\* A Sequence object is identified by its place in session.objects (0 is
\* None); a callback id is the number the host issued for it.  The host
\* holds, for every callback that is registered, its id, the message it
\* listens to, the function and the client data (a Sequence object for the
\* two time-change callbacks, 0 for the window).

MaxInstances == 3

\* The scenes that are opened: no bookmark, one shot of SQ0010, one shot of
\* SQ0020, one bookmark with the attributes and the name SHOT.
Scenes ==
    {<<>>} \cup
    {<<[fields |-> TRUE, name |-> n, start |-> 0, stop |-> 0]>> :
        n \in {ShotName(<<"0", "0", "1", "0">>, <<"0", "0", "1", "0">>),
               ShotName(<<"0", "0", "2", "0">>, <<"0", "0", "1", "0">>),
               <<"S", "H", "O", "T">>}}

\* cls("SQ0010") in load, with the shots and the name load gives it.
NewSequence(loaded) ==
    [name |-> loaded.name, shots |-> loaded.shots,
     preview_viewport |-> FALSE, auto_solo_cam |-> FALSE]

\* A load that fills the object that is the instance, when there is one.
LoadInPlace(s, loaded) ==
    IF s.instance = 0
    THEN [s EXCEPT !.objects = Append(@, NewSequence(loaded)),
                   !.instance = Len(s.objects) + 1]
    ELSE [s EXCEPT !.objects[s.instance] = NewSequence(loaded)]

\* instance = load(): load makes a new object (cls("SQ0010")), and the class
\* attribute is bound to it.
LoadInstance(s, loaded) ==
    [s EXCEPT !.objects = Append(@, NewSequence(loaded)),
              !.instance = Len(s.objects) + 1]

\* get_sequencer_sequence(reset): the process after the call, the error load
\* raised (None for none) and the object returned (0 when load raised).
GetSequencerSequence(s, reset) ==
    IF s.instance = 0 \/ reset
    THEN LET loaded == LoadStore(s.scene)
         IN  IF loaded.error # None
             THEN [session |-> s, error |-> loaded.error, instance |-> 0]
             ELSE LET t == LoadInstance(s, loaded)
                  IN  [session |-> t, error |-> None, instance |-> t.instance]
    ELSE [session |-> s, error |-> None, instance |-> s.instance]

\* remove_callbacks() that leaves the list as it is.
RemoveCallbacksKeepList(s) ==
    [s EXCEPT !.registered =
                  {r \in @ : \A i \in 1..Len(s.callbacks) : s.callbacks[i] # r.id}]

\* remove_callbacks(): every id of the list is removed from the host, and
\* the list is cleared.
RemoveCallbacks(s) ==
    [s EXCEPT !.registered =
                  {r \in @ : \A i \in 1..Len(s.callbacks) : s.callbacks[i] # r.id},
              !.callbacks = <<>>]

\* The four callbacks run() registers, in the order of its appends; the
\* host's ids go on from n.
SetupCallbacks(n, instance) ==
    <<[id |-> n + 1, message |-> "timeChange",
       function |-> "update_preview_viewport_camera", data |-> instance],
      [id |-> n + 2, message |-> "timeChange",
       function |-> "update_shots_start_and_stop_datas", data |-> instance],
      [id |-> n + 3, message |-> "kBeforeOpen",
       function |-> "close_sequencer", data |-> 0],
      [id |-> n + 4, message |-> "kBeforeNew",
       function |-> "close_sequencer", data |-> 0]>>

\* run(): the process after the call and the error it raised.
RunSequencer(s) ==
    LET cleared == IF s.callbacks # <<>> THEN RemoveCallbacks(s) ELSE s
        got     == GetSequencerSequence(cleared, TRUE)
    IN  IF got.error # None THEN [session |-> cleared, error |-> got.error]
        ELSE LET t   == got.session
                 new == SetupCallbacks(t.issued, got.instance)
             IN  [session |->
                      [t EXCEPT !.objects[got.instance].preview_viewport = TRUE,
                                !.open = TRUE,
                                !.callbacks = @ \o [i \in 1..4 |-> new[i].id],
                                !.registered = @ \cup {new[i] : i \in 1..4},
                                !.issued = @ + 4],
                  error |-> None]

\* close_sequencer(window): the callbacks go first; the host either refuses
\* the window it is given (raised: nothing more happens) or closes it, and
\* then the Sequence is fetched for its viewport.
CloseSequencer(s, raised) ==
    LET removed == RemoveCallbacks(s)
        closed  == [removed EXCEPT !.open = FALSE]
        got     == GetSequencerSequence(closed, FALSE)
    IN  IF raised THEN [session |-> removed, error |-> RuntimeError]
        ELSE IF got.error # None THEN [session |-> closed, error |-> got.error]
             ELSE [session |-> got.session, error |-> None]

\* The host opens a scene (kBeforeOpen) or makes a new one (kBeforeNew): the
\* callbacks registered for the message run before the scene changes.
BeforeScene(s, message, raised) ==
    IF \E r \in s.registered : r.message = message
    THEN CloseSequencer(s, raised).session
    ELSE s

\* What a call leaves in result.
Called(call, reset, before, error, instance) ==
    [call |-> call, reset |-> reset, before |-> before, error |-> error,
     instance |-> instance]

CallGetSequencerSequence(reset) ==
    LET got == GetSequencerSequence(session, reset)
    IN  /\ reset => Len(session.objects) < MaxInstances
        /\ session' = got.session
        /\ result' = Called("get_sequencer_sequence", reset, session,
                            got.error, got.instance)
        /\ UNCHANGED <<scene, naming>>

CallRun ==
    LET ran == RunSequencer(session)
    IN  /\ Len(session.objects) < MaxInstances
        /\ session' = ran.session
        /\ result' = Called("run", TRUE, session, ran.error,
                            ran.session.instance)
        /\ UNCHANGED <<scene, naming>>

CallCloseSequencer(raised) ==
    LET shut == CloseSequencer(session, raised)
    IN  /\ session' = shut.session
        /\ result' = Called("close_sequencer", FALSE, session, shut.error,
                            shut.session.instance)
        /\ UNCHANGED <<scene, naming>>

CallRemoveCallbacks ==
    /\ session' = RemoveCallbacks(session)
    /\ result' = Called("remove_callbacks", FALSE, session, None,
                        session.instance)
    /\ UNCHANGED <<scene, naming>>

\* SequencerSequence.set_auto_solo_camera(value) on the instance.
SetAutoSoloCamera(value) ==
    /\ session.instance # 0
    /\ session' = [session EXCEPT !.objects[session.instance].auto_solo_cam = value]
    /\ result' = Called("set_auto_solo_camera", FALSE, session, None,
                        session.instance)
    /\ UNCHANGED <<scene, naming>>

OpenScene(store, raised) ==
    /\ session' = [BeforeScene(session, "kBeforeOpen", raised) EXCEPT !.scene = store]
    /\ result' = Called("open", FALSE, session, None, session.instance)
    /\ UNCHANGED <<scene, naming>>

NewScene(raised) ==
    /\ session' = [BeforeScene(session, "kBeforeNew", raised) EXCEPT !.scene = <<>>]
    /\ result' = Called("new", FALSE, session, None, session.instance)
    /\ UNCHANGED <<scene, naming>>

\* The user adds or deletes bookmarks in the scene that is open: no message
\* of the scene is sent.
EditScene(store) ==
    /\ store # session.scene
    /\ session' = [session EXCEPT !.scene = store]
    /\ result' = Called("edit", FALSE, session, None, session.instance)
    /\ UNCHANGED <<scene, naming>>

\* The accessor alone, on the scenes the host opens.
NextInstance ==
    \/ \E reset \in BOOLEAN : CallGetSequencerSequence(reset)
    \/ \E value \in BOOLEAN : SetAutoSoloCamera(value)
    \/ \E store \in Scenes : OpenScene(store, FALSE)

SpecInstance == Init /\ [][NextInstance]_vars

\* The tool is run and closed, its callbacks removed, scenes opened and made.
NextMain ==
    \/ CallRun
    \/ \E raised \in BOOLEAN : CallCloseSequencer(raised)
    \/ CallRemoveCallbacks
    \/ CallGetSequencerSequence(FALSE)
    \/ \E store \in Scenes, raised \in BOOLEAN : OpenScene(store, raised)
    \/ \E raised \in BOOLEAN : NewScene(raised)
    \/ \E store \in Scenes : EditScene(store)

SpecMain == Init /\ [][NextMain]_vars

----------------------------------------------------------------------------
\* Properties

Sorted(s) == \A i \in 2..Len(s) : s[i - 1].start <= s[i].start

\* C1: after any sequence of Sequence operations (load, creation, deletion,
\* offset_frame_of_shot_at_time with any total, Shot.move, the two resolve
\* passes) the shots list is sorted ascending by start.
C1_SortedAfterAnyOperation == Sorted(shots)


\* A world whose Sequence is s, with the bookmarks in step with the shots.
WorldOf(s) ==
    [shots     |-> s,
     bookmarks |-> [n \in {s[i].name : i \in 1..Len(s)} |->
                      LET sh == s[CHOOSE i \in 1..Len(s) : s[i].name = n]
                      IN  [exists |-> TRUE, start |-> sh.start, stop |-> sh.stop]],
     cameras   |-> [n \in {s[i].name : i \in 1..Len(s)} |->
                      [exists |-> TRUE, key |-> 0]]]

Shot(n, a, b) == [name |-> n, start |-> a, stop |-> b]

\* The shot of s with the given name.
Named(s, n) == s[CHOOSE i \in 1..Len(s) : s[i].name = n]

\* The times a query is asked for: every frame, and one frame beyond each end.
QueryTimes == (0 - 1)..(MaxFrame + 1)

\* C2: get_shots_at_time(t) returns exactly the shots with start <= t <= stop,
\* in the Sequence's order, also when shots overlap; for [1,10], [11,20],
\* [21,30] the query at 20 returns only the second shot.
C2_ShotsAtTimeExact ==
    /\ \A t \in QueryTimes :
          LET r == GetShotsAtTime(shots, t)
              At(sh) == sh.start <= t /\ t <= sh.stop
          IN  r = SelectSeq(shots, At)
    /\ GetShotsAtTime(<<Shot(10, 1, 10), Shot(20, 11, 20), Shot(30, 21, 30)>>, 20)
          = <<Shot(20, 11, 20)>>

\* Three shots, two of them at the same time and one not.
C2_Witness ==
    /\ Len(shots) = 3
    /\ \E t \in Frames : Len(GetShotsAtTime(shots, t)) = 2

\* C3: resolve_overlapping_shots is idempotent: on every sorted Sequence a
\* second run leaves every shot's [start, stop] and every camera's keyframes
\* as the first run left them.
C3_UnstackIdempotent ==
    Sorted(shots) =>
        LET once  == ResolveOverlappingShots(World)
            twice == ResolveOverlappingShots(once)
        IN  twice.shots = once.shots /\ twice.cameras = once.cameras

NoAdjacentOverlap(s) == \A i \in 2..Len(s) : ~(s[i].start < s[i - 1].stop)

\* C4: after resolve_overlapping_shots on a sorted Sequence no two adjacent
\* shots satisfy shot[i].start < shot[i-1].stop, and a shot that overlapped
\* its predecessor starts on the frame after the predecessor's stop; for
\* A = [1,10], B = [5,15] the result is A = [1,10], B = [11,21].
C4_UnstackLeavesNoAdjacentOverlap ==
    /\ Sorted(shots) =>
          LET r == ResolveOverlappingShots(World).shots
              l == OverlapLoop(World, 2).shots
          IN  /\ NoAdjacentOverlap(r)
              /\ \A i \in 2..Len(shots) :
                    l[i].start # shots[i].start =>
                        /\ shots[i].start < l[i - 1].stop
                        /\ l[i].start - shots[i].start
                              = (l[i - 1].stop - shots[i].start) + 1
    /\ ResolveOverlappingShots(WorldOf(<<Shot(10, 1, 10), Shot(20, 5, 15)>>)).shots
          = <<Shot(10, 1, 10), Shot(20, 11, 21)>>

AllProper(s) == \A i \in 1..Len(s) : s[i].start <= s[i].stop

\* C5: after one resolve_overlapping_shots pass on a sorted Sequence whose
\* shots all satisfy start <= stop, no shot shares a frame with an earlier
\* shot of the list (shots[j].start > shots[i].stop for all i < j), and every
\* move of the pass went forward.
C5_UnstackLeavesNoSharedFrame ==
    (Sorted(shots) /\ AllProper(shots)) =>
        LET r == ResolveOverlappingShots(World).shots
        IN  /\ \A i, j \in 1..Len(r) : i < j => r[j].start > r[i].stop
            /\ \A i \in 1..Len(shots) :
                  Named(r, shots[i].name).start >= shots[i].start

NoOverlap(s) == \A i, j \in 1..Len(s) : i < j => s[j].start > s[i].stop

KeepsLengthsAndCameras(w) ==
    \A i \in 1..Len(shots) :
        LET old == shots[i]
            new == Named(w.shots, old.name)
        IN  /\ new.stop - new.start = old.stop - old.start
            /\ w.cameras[old.name].key - cameras[old.name].key = new.start - old.start

\* C9: both resolve passes preserve every shot's length, and shift the
\* shot's camera keyframes by the offset of its interval.
C9_PassesKeepLengths ==
    /\ KeepsLengthsAndCameras(ResolveOverlappingShots(World))
    /\ KeepsLengthsAndCameras(ResolveGapsBetweenShots(World))

\* A pass moved a shot of more than one frame.
C9_Witness ==
    /\ last.name \in {"unstack", "link"} /\ last.moved > 0
    /\ \E i \in 1..Len(shots) : shots[i].stop > shots[i].start

ShotNumberOf(name) == ToInt(SubSeq(name, 10, 13))
FourDigits(n) == ZeroPad(ToStr(n), 4)
MaxShotNumber(seq) == Maximum({ShotNumberOf(seq.shots[i]) : i \in 1..Len(seq.shots)})

\* The name generate_shot_name is to return on seq when the number of the
\* new shot is n.
GeneratedName(seq, n) ==
    IF seq.shots = <<>>
    THEN seq.name \o <<"_", "S", "H", "0", "0", "1", "0">>
    ELSE SubSeq(seq.shots[1], 1, 6) \o <<"_", "S", "H">> \o FourDigits(n)

\* C11 as claimed: generate_shot_name returns <sequence name>_SH0010 for an
\* empty Sequence, and else the first shot's sequence prefix with the maximum
\* shot number of all shots plus 10, for every set of well-formed names.
C11_GeneratedNameIsMaxPlusTen ==
    result.call = "generate_shot_name" =>
        result.value =
            GeneratedName(result.arg,
                          IF result.arg.shots = <<>> THEN 10
                          ELSE MaxShotNumber(result.arg) + 10)

\* C11 as amended: the number of the new shot is the next multiple of 10
\* above the maximum shot number (the maximum plus 10 only when the maximum
\* is a multiple of 10); the Sequence takes the name of the first shot's
\* prefix.
C11_GeneratedNameIsNextTen ==
    result.call = "generate_shot_name" =>
        /\ result.value =
              GeneratedName(result.arg,
                            IF result.arg.shots = <<>> THEN 10
                            ELSE ((MaxShotNumber(result.arg) \div 10) + 1) * 10)
        /\ result.arg.shots # <<>> => naming.name = SubSeq(result.arg.shots[1], 1, 6)
        /\ result.arg.shots = <<>> => naming.name = result.arg.name

\* A name was generated for a Sequence of two shots of which the higher
\* number is not a multiple of 10.
C11_Witness ==
    /\ result.call = "generate_shot_name"
    /\ Len(result.arg.shots) = 2
    /\ MaxShotNumber(result.arg) % 10 # 0

\* The patterns of the names: SQ and four digits; that, an underscore, SH
\* and four digits.
MatchesSequencePattern(name) ==
    /\ Len(name) = 6
    /\ SubSeq(name, 1, 2) = <<"S", "Q">>
    /\ \A i \in 3..6 : IsDigit(name[i])

MatchesShotPattern(name) ==
    /\ Len(name) = 13
    /\ MatchesSequencePattern(SubSeq(name, 1, 6))
    /\ SubSeq(name, 7, 9) = <<"_", "S", "H">>
    /\ \A i \in 10..13 : IsDigit(name[i])

\* C12: valid_shot_name returns the name unchanged if it is SQ + 4 digits +
\* _ + SH + 4 digits and raises ValueError on every other string;
\* valid_sequence_name does so for SQ + 4 digits.
C12_ValidatorsAcceptExactPattern ==
    /\ result.call = "valid_shot_name" =>
          result.value = (IF MatchesShotPattern(result.arg)
                          THEN result.arg ELSE ValueError)
    /\ result.call = "valid_sequence_name" =>
          result.value = (IF MatchesSequencePattern(result.arg)
                          THEN result.arg ELSE ValueError)

\* What does hold: a name of the pattern is returned unchanged, BADNAME is
\* refused, and a name is either returned unchanged or refused.
C12_PatternAcceptedAndBadNameRefused ==
    result.call \in {"valid_shot_name", "valid_sequence_name"} =>
        /\ result.value \in {result.arg, ValueError}
        /\ result.arg = <<"B", "A", "D", "N", "A", "M", "E">> => result.value = ValueError
        /\ (result.call = "valid_shot_name" /\ MatchesShotPattern(result.arg))
              => result.value = result.arg
        /\ (result.call = "valid_sequence_name" /\ MatchesSequencePattern(result.arg))
              => result.value = result.arg

\* A name off the pattern was accepted.
C12_AcceptedOffPattern ==
    /\ result.call = "valid_shot_name"
    /\ ~MatchesShotPattern(result.arg)
    /\ result.value = result.arg

\* The shots of s but the one at place i.
Without(s, i) == SubSeq(s, 1, i - 1) \o SubSeq(s, i + 1, Len(s))

\* The confirmed delete removes the first shot at the playhead, with its
\* bookmark and its camera, and nothing else.
RemovesFirstShotAtTime(sc, out) ==
    LET i  == ActiveIndex(sc.world.shots, sc.playhead)
        sh == GetShotsAtTime(sc.world.shots, sc.playhead)[1]
    IN  /\ sc.world.shots[i] = sh
        /\ out.world.shots = Without(sc.world.shots, i)
        /\ out.world.bookmarks = [sc.world.bookmarks EXCEPT ![sh.name] = NoNode]
        /\ out.world.cameras = [sc.world.cameras EXCEPT ![sh.name] = NoCamera]
        /\ out.playhead = sc.playhead /\ out.window = sc.window

\* C13: delete_shot at a playhead that no shot contains ends without an
\* exception and changes nothing; at a playhead that a shot contains, once
\* confirmed, it removes exactly the first shot of get_shots_at_time with its
\* bookmark and its camera.
C13_DeleteWarnsOrRemovesFirst ==
    /\ result.call = "delete_shot" => result.value = None
    /\ \A confirmed \in BOOLEAN :
          LET out == DeleteShotSlot(Scene, confirmed)
          IN  /\ GetShotsAtTime(shots, playhead) = <<>> => out.world = World
              /\ (GetShotsAtTime(shots, playhead) # <<>> /\ confirmed) =>
                    out.value = None /\ RemovesFirstShotAtTime(Scene, out)

\* The part of C13 on a playhead that a shot contains.
C13_ConfirmedDeleteRemovesFirst ==
    \A confirmed \in BOOLEAN :
        LET out == DeleteShotSlot(Scene, confirmed)
        IN  /\ (GetShotsAtTime(shots, playhead) # <<>> /\ confirmed) =>
                  out.value = None /\ RemovesFirstShotAtTime(Scene, out)
            /\ (GetShotsAtTime(shots, playhead) # <<>> /\ ~confirmed) => out = Scene
            /\ GetShotsAtTime(shots, playhead) = <<>> => out.world = World

\* delete_shot raised at a playhead without a shot.
C13_DeleteRaised ==
    /\ result = [call |-> "delete_shot", value |-> IndexError]
    /\ GetShotsAtTime(shots, playhead) = <<>>

\* The successful create adds one shot [playhead, playhead + length] of the
\* name, its bookmark and its camera, and nothing else.
AddsOneShot(sc, out, name, length) ==
    LET t == sc.playhead
    IN  /\ Len(out.world.shots) = Len(sc.world.shots) + 1
        /\ \E i \in 1..Len(out.world.shots) :
              /\ out.world.shots[i] = [name |-> name, start |-> t, stop |-> t + length]
              /\ Without(out.world.shots, i) = sc.world.shots
        /\ out.world.bookmarks =
              [sc.world.bookmarks EXCEPT ![name] =
                  [exists |-> TRUE, start |-> t, stop |-> t + length]]
        /\ \A n \in ShotNames \ {name} : out.world.cameras[n] = sc.world.cameras[n]
        /\ out.world.cameras[name].exists
        /\ out.playhead = sc.playhead /\ out.window = sc.window

\* C14: do_create_shot with a name that is taken, or whose camera's name is
\* taken, raises and leaves bookmarks, cameras and Sequence as they were; with
\* a free name it adds exactly one shot, start at the playhead and stop at
\* start + length.
C14_CreateFailsBeforeAnyMutation ==
    \A name \in ShotNames, length \in Lengths :
        LET out == DoCreateShotSlot(Scene, name, length)
        IN  IF bookmarks[name].exists \/ cameras[name].exists
            THEN out.value # None /\ out = [Scene EXCEPT !.value = out.value]
            ELSE out.value = None /\ AddsOneShot(Scene, out, name, length)

\* The parts of C14 that hold: a taken shot name fails before any mutation,
\* a free name with a free camera name adds exactly one shot.
C14_TakenNameOrFreeName ==
    \A name \in ShotNames, length \in Lengths :
        LET out == DoCreateShotSlot(Scene, name, length)
        IN  /\ bookmarks[name].exists =>
                  out.value # None /\ out = [Scene EXCEPT !.value = out.value]
            /\ (~bookmarks[name].exists /\ ~cameras[name].exists) =>
                  out.value = None /\ AddsOneShot(Scene, out, name, length)

\* A create raised and left a bookmark that is no shot of the Sequence.
C14_PartialCreate ==
    /\ result = [call |-> "do_create_shot", value |-> RuntimeError]
    /\ \E n \in ShotNames :
          bookmarks[n].exists /\ \A i \in 1..Len(shots) : shots[i].name # n

\* C15: no two shots of the Sequence share a name, in every state reached by
\* create, delete and rename.
C15_NoTwoShotsShareName ==
    \A i, j \in 1..Len(naming.shots) : i # j => naming.shots[i] # naming.shots[j]

\* The part of C15 that holds: the names differ until a rename merges two
\* sequence prefixes.
C15_NamesDifferWhilePrefixesAgree ==
    [][(/\ C15_NoTwoShotsShareName
        /\ \A i, j \in 1..Len(naming.shots) :
              SubSeq(naming.shots[i], 1, 6) = SubSeq(naming.shots[j], 1, 6))
       => C15_NoTwoShotsShareName']_vars

\* A rename left two shots of one name.
C15_RenameMergedNames ==
    /\ result.call = "rename"
    /\ Len(naming.shots) = 2
    /\ naming.shots[1] = naming.shots[2]

\* C16: every shot has start <= stop in every reachable state, in the
\* Sequence and in the scene.
C16_StartNotAfterStop ==
    /\ AllProper(shots)
    /\ \A n \in ShotNames : bookmarks[n].exists => bookmarks[n].start <= bookmarks[n].stop

\* What the slots keep: a stop is never more than one frame below its start.
C16_StopWithinOneOfStart ==
    /\ \A i \in 1..Len(shots) : shots[i].start <= shots[i].stop + 1
    /\ \A n \in ShotNames : bookmarks[n].exists => bookmarks[n].start <= bookmarks[n].stop + 1

\* A reduce left a shot whose stop is below its start.
C16_ReducedBelowStart ==
    /\ last.name = "offset"
    /\ \E n \in ShotNames : bookmarks[n].exists /\ bookmarks[n].stop < bookmarks[n].start

\* The window that exactly bounds all shots of s: from the least start to
\* the greatest stop.
BoundsOfShots(s) ==
    [min |-> CHOOSE a \in {s[i].start : i \in 1..Len(s)} :
                 \A i \in 1..Len(s) : a <= s[i].start,
     max |-> CHOOSE b \in {s[i].stop : i \in 1..Len(s)} :
                 \A i \in 1..Len(s) : s[i].stop <= b]

\* The three cases in which defocus_active_shot widens the window.
SequenceFocused == window.min = shots[1].start /\ window.max = shots[Len(shots)].stop
ShotFocused ==
    \E i \in 1..Len(shots) :
        /\ shots[i].start <= playhead /\ playhead <= shots[i].stop
        /\ shots[i].start = window.min /\ shots[i].stop = window.max
FullyDefocused == window.min < shots[1].start /\ window.max > shots[Len(shots)].stop

\* C17: on a Sequence that has a shot, defocus_active_shot widens the window
\* to [min - 24, max + 24] if and only if the window is sequence-focused,
\* shot-focused at the playhead or fully defocused; otherwise it sets the
\* window to bound all shots; neither the shots nor the playhead change.
C17_DefocusWidensOrResets ==
    shots # <<>> =>
        LET out == DefocusActiveShot(Scene)
            widened == [min |-> window.min - 24, max |-> window.max + 24]
        IN  /\ out.value = None
            /\ (SequenceFocused \/ ShotFocused \/ FullyDefocused) <=> out.window = widened
            /\ ~(SequenceFocused \/ ShotFocused \/ FullyDefocused)
                  => out.window = BoundsOfShots(shots)
            /\ out.world = World
            /\ out.playhead = playhead

\* defocus_active_shot has reset a window that was none of the three cases
\* to the bounds of two shots.
C17_Witness ==
    /\ result = [call |-> "defocus_active_shot", value |-> None]
    /\ Len(shots) = 2
    /\ window = BoundsOfShots(shots)
    /\ window # ShotFocus(shots[1]) /\ window # ShotFocus(shots[2])

\* defocus_active_shot has widened the window.
C17_Widened ==
    /\ result = [call |-> "defocus_active_shot", value |-> None]
    /\ shots # <<>>
    /\ window.min < 0

\* What focus_previous_at_time and focus_next_at_time are to do with the
\* candidates idx: frame the last of them and put the playhead on its start,
\* so that the shot is in focus at the playhead; nothing when there is none.
FocusesLast(sc, idx, out) ==
    IF idx = {}
    THEN out.window = sc.window /\ out.playhead = sc.playhead
    ELSE LET sh == sc.world.shots[LastIndex(idx)]
         IN  /\ out.window = [min |-> sh.start, max |-> sh.stop]
             /\ out.playhead = sh.start
             /\ IsShotFocusAtTime(out.world.shots, out.window, out.playhead)

\* C18: focus_previous_at_time frames the last shot with stop < playhead and
\* focus_next_at_time the last shot with start > playhead: the window is the
\* shot's [start, stop], the playhead its start, the state shot-focused; with
\* no candidate the window and the playhead stay.
C18_FocusSelectsLast ==
    /\ FocusesLast(Scene, {i \in 1..Len(shots) : shots[i].stop < playhead},
                   FocusPreviousAtTime(Scene))
    /\ FocusesLast(Scene, {i \in 1..Len(shots) : shots[i].start > playhead},
                   FocusNextAtTime(Scene))

\* focus_next_shot has framed the last of two next shots, not the nearest.
C18_Witness ==
    /\ result = [call |-> "focus_next_shot", value |-> None]
    /\ Len(shots) = 2
    /\ shots[1].start < shots[2].start
    /\ window = ShotFocus(shots[2]) /\ playhead = shots[2].start
    /\ window # ShotFocus(shots[1])

\* The elements of a list.
Range(seq) == {seq[i] : i \in 1..Len(seq)}

\* In how many of the three results of the queries at t the shot sh is.
ResultsHolding(s, t, sh) ==
    Cardinality({k \in 1..3 :
        sh \in Range(CASE k = 1 -> GetPreviousShotsAtTime(s, t)
                       [] k = 2 -> GetShotsAtTime(s, t)
                       [] k = 3 -> GetNextShotsAtTime(s, t))})

\* get_previous_shots_at_time and get_next_shots_at_time return exactly the
\* shots with stop < t and with start > t, in the order of the Sequence.
QueriesExact(s, t) ==
    LET Before(sh) == sh.stop < t
        After(sh)  == sh.start > t
    IN  /\ GetPreviousShotsAtTime(s, t) = SelectSeq(s, Before)
        /\ GetNextShotsAtTime(s, t) = SelectSeq(s, After)

\* C19: for every Sequence and time t the previous and next queries are
\* exact and in Sequence order, and every shot is in exactly one of the
\* results of the previous, at and next queries.
C19_QueriesPartitionShots ==
    \A t \in QueryTimes :
        /\ QueriesExact(shots, t)
        /\ \A i \in 1..Len(shots) : ResultsHolding(shots, t, shots[i]) = 1

\* The part of C19 that holds: the queries are exact, and they partition
\* the shots that have start <= stop.
C19_QueriesExactAndPartitionProperShots ==
    \A t \in QueryTimes :
        /\ QueriesExact(shots, t)
        /\ \A i \in 1..Len(shots) :
              shots[i].start <= shots[i].stop => ResultsHolding(shots, t, shots[i]) = 1
        /\ \A i \in 1..Len(shots) : ResultsHolding(shots, t, shots[i]) >= 1

\* A shot is both before and after a time.
C19_ShotBeforeAndAfter ==
    \E t \in QueryTimes, i \in 1..Len(shots) :
        /\ shots[i] \in Range(GetPreviousShotsAtTime(shots, t))
        /\ shots[i] \in Range(GetNextShotsAtTime(shots, t))

\* A slot ended without an exception and changed neither the shots, nor the
\* window, nor the playhead.
NotFound(sc, out) ==
    /\ out.value = None
    /\ out.world = sc.world /\ out.window = sc.window /\ out.playhead = sc.playhead

\* C20: on an empty Sequence defocus_active_shot, and at a playhead that no
\* shot contains focus_active_shot, reduce_active_shot_length and
\* increase_active_shot_length, end without raising and leave the shots, the
\* window and the playhead unchanged.
C20_NotFoundInsteadOfRaising ==
    /\ result.call \in {"reduce_active_shot_length", "increase_active_shot_length"}
          => result.value = None
    /\ shots = <<>> => NotFound(Scene, DefocusActiveShot(Scene))
    /\ GetShotsAtTime(shots, playhead) = <<>> =>
          /\ NotFound(Scene, FocusActiveShot(Scene))
          /\ NotFound(Scene, OffsetFrameSlot(Scene, 0 - 1))
          /\ NotFound(Scene, OffsetFrameSlot(Scene, 1))

\* What holds of these operations: they change nothing, and the focus of
\* the previous and of the next shot, which test their list, do not raise.
C20_RaisesButChangesNothing ==
    /\ shots = <<>> =>
          DefocusActiveShot(Scene) = [Scene EXCEPT !.value = IndexError]
    /\ GetShotsAtTime(shots, playhead) = <<>> =>
          /\ FocusActiveShot(Scene) = [Scene EXCEPT !.value = IndexError]
          /\ OffsetFrameSlot(Scene, 0 - 1) = [Scene EXCEPT !.value = IndexError]
          /\ OffsetFrameSlot(Scene, 1) = [Scene EXCEPT !.value = IndexError]
    /\ FocusPreviousAtTime(Scene).value = None
    /\ FocusNextAtTime(Scene).value = None

\* reduce_active_shot_length raised at a playhead without a shot.
C20_ReduceRaised ==
    /\ result = [call |-> "reduce_active_shot_length", value |-> IndexError]
    /\ shots # <<>>
    /\ GetShotsAtTime(shots, playhead) = <<>>

\* A bookmark that is a shot: it has the attributes and a name of the pattern.
WellFormedNode(node) == node.fields /\ MatchesShotPattern(node.name)

\* Ascending by start.
Ascending(s) == \A i \in 2..Len(s) : s[i - 1].start <= s[i].start

\* C21: load yields exactly the well-formed shots of the scene, sorted
\* ascending by start, without an error; the Sequence is named by the prefix
\* of the first shot's name, or SQ0010 when there is no shot.
C21_LoadYieldsWellFormedSorted ==
    result.call = "load" =>
        /\ result.value.error = None
        /\ result.value.shots = SortedByStart(SelectSeq(result.arg, WellFormedNode))
        /\ Ascending(result.value.shots)
        /\ result.value.name =
              (IF result.value.shots = <<>> THEN <<"S", "Q", "0", "0", "1", "0">>
               ELSE SubSeq(result.value.shots[1].name, 1, 6))

\* What holds: the claim on the scenes in which every bookmark with the
\* attributes has a name of the pattern.
C21_LoadOfPatternNames ==
    (/\ result.call = "load"
     /\ \A i \in 1..Len(result.arg) :
           result.arg[i].fields => MatchesShotPattern(result.arg[i].name))
    => /\ result.value.error = None
       /\ result.value.shots = SortedByStart(SelectSeq(result.arg, WellFormedNode))
       /\ Ascending(result.value.shots)
       /\ result.value.name =
             (IF result.value.shots = <<>> THEN <<"S", "Q", "0", "0", "1", "0">>
              ELSE SubSeq(result.value.shots[1].name, 1, 6))

\* A load raised on a scene whose first shot has a name without underscore.
C21_LoadRaised ==
    /\ result.call = "load"
    /\ result.value.error = ValueError

C22_Kept ==
    /\ result.call = "get_sequencer_sequence"
    /\ result.error = None
    /\ ~result.reset
    /\ result.before.instance # 0
    /\ result.instance = result.before.instance

\* A reset has raised in load, and the instance of before stays.
C22_ResetRaised ==
    /\ result.call = "get_sequencer_sequence"
    /\ result.reset
    /\ result.error = ValueError
    /\ session.instance # 0

\* C27: whatever run(), close_sequencer and remove_callbacks have done, the
\* callbacks the host holds are those of the module's callbacks list, id for
\* id, the list has no entry or exactly four, and every time-change callback
\* the host holds is bound to the process-wide Sequence instance.
C27_CallbacksMatchList ==
    /\ {r.id : r \in session.registered} =
          {session.callbacks[i] : i \in 1..Len(session.callbacks)}
    /\ Cardinality(session.registered) = Len(session.callbacks)
    /\ Len(session.callbacks) \in {0, 4}
    /\ \A r \in session.registered :
          r.message = "timeChange" =>
              session.instance # 0 /\ r.data = session.instance

\* run() has run while the callbacks of an earlier run() were registered,
\* and the host again holds four.
C27_Witness ==
    /\ result.call = "run"
    /\ result.error = None
    /\ Len(result.before.callbacks) = 4
    /\ Len(session.callbacks) = 4
    /\ session.instance # result.before.instance
    /\ \E r \in session.registered : r.message = "timeChange"

\* run() has raised in load after it removed the callbacks of before.
C27_RunRaised ==
    /\ result.call = "run"
    /\ result.error = ValueError
    /\ Len(result.before.callbacks) = 4
    /\ session.callbacks = <<>>

\* A scene was opened and the callback of the host closed the tool.
C27_ClosedByHost ==
    /\ result.call = "open"
    /\ Len(result.before.callbacks) = 4
    /\ session.callbacks = <<>>
    /\ session.registered = {}

\* Two shots share a frame (a shot with stop < start holds no frame).
SharesFrame(a, b) ==
    \E f \in (0 - MaxFrame)..(2 * MaxFrame) :
        a.start <= f /\ f <= a.stop /\ b.start <= f /\ f <= b.stop

NoTwoOverlap(s) ==
    \A i, j \in 1..Len(s) : i # j => ~SharesFrame(s[i], s[j])

\* The ranges of the bookmarks of the shots of w, in the order of the list.
BookmarkRanges(w) ==
    [i \in 1..Len(w.shots) |->
        [name  |-> w.shots[i].name,
         start |-> w.bookmarks[w.shots[i].name].start,
         stop  |-> w.bookmarks[w.shots[i].name].stop]]

\* The effect C23 gives offset_frame_of_shot_at_time(t, total), from the
\* ranges `was` to the ranges `now` of the same shots: the first shot at t
\* gains total at its stop and keeps its start, every shot that starts after
\* t is shifted by total, every other shot is as it was.
OffsetEffect(was, now, t, total) ==
    LET active == ActiveIndex(was, t)
    IN  /\ Len(now) = Len(was)
        /\ \A i \in 1..Len(was) :
              /\ now[i].name = was[i].name
              /\ now[i].start = was[i].start + (IF was[i].start > t THEN total ELSE 0)
              /\ now[i].stop = was[i].stop +
                    (IF i = active \/ was[i].start > t THEN total ELSE 0)

\* The cameras after the call: shifted with the shots that start after t,
\* every other camera (that of the resized shot too) as it was.
OffsetCameras(w, after, t, total) ==
    \A i \in 1..Len(w.shots) :
        after.cameras[w.shots[i].name].key =
            w.cameras[w.shots[i].name].key +
                (IF w.shots[i].start > t THEN total ELSE 0)

\* C23: offset_frame_of_shot_at_time(t, total), called at a frame a shot
\* contains, adds total to the stop of the first shot at t and keeps its
\* start and its camera, shifts every shot that starts after t (range and
\* camera) by total, and leaves every other shot as it was; and when no two
\* shots overlap and total is -1 or +1, no two shots overlap afterwards.
\* The ranges are those of the scene (the bookmarks of the shots).
C23_OffsetResizesAndShifts ==
    \A t \in Frames, total \in Offsets :
        ActiveIndex(shots, t) # 0 =>
            LET after == OffsetFrameOfShotAtTime(World, t, total)
            IN  /\ OffsetEffect(BookmarkRanges(World), BookmarkRanges(after), t, total)
                /\ OffsetCameras(World, after, t, total)
                /\ (NoTwoOverlap(BookmarkRanges(World)) /\ total \in {0 - 1, 1}) =>
                      NoTwoOverlap(BookmarkRanges(after))

\* The same from a Sequence whose shots hold the ranges of their bookmarks.
C23_OffsetWhenFresh ==
    \A t \in Frames, total \in Offsets :
        (ActiveIndex(shots, t) # 0 /\ shots = UpdateRangeOfShots(shots, bookmarks)) =>
            LET after == OffsetFrameOfShotAtTime(World, t, total)
            IN  /\ OffsetEffect(BookmarkRanges(World), BookmarkRanges(after), t, total)
                /\ OffsetCameras(World, after, t, total)
                /\ (NoTwoOverlap(BookmarkRanges(World)) /\ total \in {0 - 1, 1}) =>
                      NoTwoOverlap(BookmarkRanges(after))

\* The same read on the Shot objects of the Sequence.
C23_OffsetOnShots ==
    \A t \in Frames, total \in Offsets :
        ActiveIndex(shots, t) # 0 =>
            LET after == OffsetFrameOfShotAtTime(World, t, total)
            IN  /\ OffsetEffect(shots, after.shots, t, total)
                /\ (NoTwoOverlap(shots) /\ total \in {0 - 1, 1}) =>
                      NoTwoOverlap(after.shots)

\* A shot was resized and the playhead has not moved since: the Shot still
\* holds the stop of before, and a second resize starts from it.
C23_ResizedTwice ==
    /\ last.name = "offset"
    /\ \E i \in 1..Len(shots) :
          /\ shots[i].stop # bookmarks[shots[i].name].stop
          /\ \E t \in Frames : ActiveIndex(shots, t) = i

\* The playback windows the predicates are asked about: the one of the
\* host, and every window around the frames of the timeline.
Windows ==
    {window} \cup
    {[min |-> a, max |-> b] : a \in (0 - 1)..(MaxFrame + 1), b \in (0 - 1)..(MaxFrame + 1)}

C24_BothFocused ==
    /\ Len(shots) = 1
    /\ IsSequenceFocus(shots, window)
    /\ IsShotFocusAtTime(shots, window, playhead)

\* defocus_active_shot takes its reset branch: none of the three predicates
\* holds for the window and the playhead.
TakesReset(s, win, t) ==
    /\ ~IsSequenceFocus(s, win)
    /\ ~IsShotFocusAtTime(s, win, t)
    /\ ~IsSequenceFullyDefocus(s, win)

\* C25: on a Sequence that has a shot, whenever defocus_active_shot takes
\* its reset branch, the window it leaves is [least start, greatest stop] of
\* the shots, is_sequence_focus holds of it, and the next
\* defocus_active_shot widens the window; a shot nested in an earlier,
\* longer shot included.
C25_ResetIsSequenceFocused ==
    shots # <<>> =>
        \A win \in Windows, t \in Frames :
            TakesReset(shots, win, t) =>
                LET out  == DefocusActiveShot([Scene EXCEPT !.window = win, !.playhead = t])
                    next == DefocusActiveShot(out)
                IN  /\ out.window = BoundsOfShots(shots)
                    /\ IsSequenceFocus(out.world.shots, out.window)
                    /\ next.window = ExtraDefocus(out.window)

\* The same on the Sequences whose last shot stops last.
C25_ResetWhenLastStopsLast ==
    (shots # <<>> /\ \A i \in 1..Len(shots) : shots[i].stop <= shots[Len(shots)].stop) =>
        \A win \in Windows, t \in Frames :
            TakesReset(shots, win, t) =>
                LET out  == DefocusActiveShot([Scene EXCEPT !.window = win, !.playhead = t])
                    next == DefocusActiveShot(out)
                IN  /\ out.window = BoundsOfShots(shots)
                    /\ IsSequenceFocus(out.world.shots, out.window)
                    /\ next.window = ExtraDefocus(out.window)

\* The last shot of the Sequence is nested in an earlier, longer shot, the
\* playhead is outside of both and the window is none of the three cases.
C25_NestedLast ==
    /\ Len(shots) = 2
    /\ shots[1].start <= shots[2].start
    /\ shots[2].stop < shots[1].stop
    /\ playhead > shots[1].stop
    /\ TakesReset(shots, window, playhead)
    /\ result.call = "defocus_active_shot"
    /\ window = BoundsOfShots(shots)

\* C26: on every Sequence of well-formed shot names, the name
\* generate_shot_name returns is the name of no shot of the Sequence and has
\* the pattern SQ + four digits + _SH + four digits; also when the highest
\* shot number is 9990 or no multiple of 10.
C26_GeneratedNameFreshAndWellFormed ==
    result.call = "generate_shot_name" =>
        /\ \A i \in 1..Len(result.arg.shots) : result.arg.shots[i] # result.value
        /\ MatchesShotPattern(result.value)

\* The same on the Sequences whose shot numbers are all below 9990.
C26_BelowLastNumber ==
    (/\ result.call = "generate_shot_name"
     /\ \A i \in 1..Len(result.arg.shots) : ShotNumberOf(result.arg.shots[i]) < 9990) =>
        /\ \A i \in 1..Len(result.arg.shots) : result.arg.shots[i] # result.value
        /\ MatchesShotPattern(result.value)

\* The generated name is the name of no shot, whatever the numbers.
C26_GeneratedNameFresh ==
    result.call = "generate_shot_name" =>
        \A i \in 1..Len(result.arg.shots) : result.arg.shots[i] # result.value

\* A name was generated for a Sequence whose highest shot number is 9990:
\* it has five digits after SH.
C26_AfterLastNumber ==
    /\ result.call = "generate_shot_name"
    /\ result.arg.shots # <<>>
    /\ MaxShotNumber(result.arg) = 9990
    /\ Len(result.value) = 14

\* Every Shot of w holds the range of its bookmark.
CacheEqualsBookmark(w) ==
    \A i \in 1..Len(w.shots) :
        /\ w.shots[i].start = w.bookmarks[w.shots[i].name].start
        /\ w.shots[i].stop = w.bookmarks[w.shots[i].name].stop

\* C28: every Shot holds the range of its bookmark when an operation
\* returns: after Shot.move, Shot.offset_end_frame and
\* offset_frame_of_shot_at_time on a Sequence of which this was true, and
\* after update_range_of_shots on any Sequence (the time-change callback
\* when the host is not scrubbing); so that the shots at a time, asked for
\* right after a resize, are those of the new ranges.
C28_CacheEqualsBookmarkOnReturn ==
    /\ CacheEqualsBookmark(World) =>
          /\ \A i \in 1..Len(shots), offset \in Offsets :
                /\ CacheEqualsBookmark(ShotMove(World, i, offset))
                /\ CacheEqualsBookmark(OffsetEndFrame(World, i, offset))
          /\ \A t \in Frames, total \in Offsets :
                ActiveIndex(shots, t) # 0 =>
                    LET after == OffsetFrameOfShotAtTime(World, t, total)
                    IN  /\ CacheEqualsBookmark(after)
                        /\ \A f \in Frames :
                              GetShotsAtTime(after.shots, f) =
                                  GetShotsAtTime(BookmarkRanges(after), f)
    /\ CacheEqualsBookmark([World EXCEPT !.shots = UpdateRangeOfShots(shots, bookmarks)])

\* The parts of C28 that do not go through Shot.offset_end_frame: Shot.move
\* keeps the Shots equal to their bookmarks, update_range_of_shots makes
\* them equal, and a time change while scrubbing changes no Shot.
C28_MoveAndTimeChangeRefresh ==
    /\ CacheEqualsBookmark(World) =>
          \A i \in 1..Len(shots), offset \in Offsets :
              CacheEqualsBookmark(ShotMove(World, i, offset))
    /\ CacheEqualsBookmark([World EXCEPT !.shots = UpdateRangeOfShots(shots, bookmarks)])
    /\ \A time \in Frames :
          /\ CacheEqualsBookmark(CurrentTime(Scene, time).world) \/ time = playhead
          /\ [Scene EXCEPT !.playhead = time].world = World

\* A resize has returned, and the resized Shot holds the stop of before.
C28_StaleAfterResize ==
    /\ result.call \in {"reduce_active_shot_length", "increase_active_shot_length"}
    /\ result.value = None
    /\ ~CacheEqualsBookmark(World)

\* The playhead was scrubbed after a resize: the Shot is still stale.
C28_StaleWhileScrubbing ==
    /\ result.call = "currentTime"
    /\ ~CacheEqualsBookmark(World)

====
